---- MODULE Spec2Model ----
(***************************************************************************)
(* A model of smac/smbo/smbo.py: the SMBO constructor's type vector, the   *)
(* initial design, the main Bayesian-optimisation loop of SMBO.run and the *)
(* challenger generator SMBO.choose_next with its random and local search. *)
(*                                                                         *)
(* Configurations are the integers 0 .. NConf-1 on a line (the neighbours  *)
(* of c are c-1 and c+1); costs and acquisition values are small integers. *)
(* The scenario is deterministic with one training instance, so every      *)
(* configuration has at most one run and its aggregate cost is the cost of *)
(* that run.  The objective is "quality" (average_cost).                   *)
(***************************************************************************)
EXTENDS Integers, Sequences, FiniteSets, TLC

VARIABLES
    pc,                 \* position of the caller inside SMBO.run / choose_next
    max_iters,          \* argument of SMBO.run
    iteration,          \* local counter of SMBO.run
    rng,                \* state of self.rng (numpy RandomState of the SMBO object)
    cs_random,          \* state of the generator owned by scenario.cs (sample_configuration)
    incumbent,          \* self.incumbent
    runhistory,         \* self.runhistory: [data : Seq(run), cost : config -> cost]
    stats,              \* Stats: remaining wall-clock time, ta time, ta runs
    status,             \* status the executor reported for the initial-design run
    XY,                 \* the (X, Y) returned by rh2EPM.transform
    model,              \* training data the surrogate model was last fitted on
    acq,                \* acquisition function: bound model, eta and number of scored calls
    next_configs_by_random_search,          \* local of choose_next, line 271
    next_configs_by_random_search_sorted,   \* local of choose_next, line 275
    next_configs_by_local_search,           \* local of choose_next, line 277
    next_configs_by_acq_value,              \* local of choose_next, line 280-282
    challengers,        \* return value of choose_next
    result,             \* return value of SMBO.run
    hist,               \* bookkeeping: counts of the calls made by run, last intensify result
    first_call,         \* bookkeeping: inputs and output of the first choose_next of the first object
    hyperparameters,    \* scenario.cs.get_hyperparameters()
    feature_array,      \* scenario.feature_array: None or its number of columns
    types               \* self.types

vars == <<pc, max_iters, iteration, rng, cs_random, incumbent, runhistory, stats,
          status, XY, model, acq, next_configs_by_random_search,
          next_configs_by_random_search_sorted, next_configs_by_local_search,
          next_configs_by_acq_value, challengers, result, hist, first_call,
          hyperparameters, feature_array, types>>

\* None, for the integer-valued fields (configurations, costs and counts are >= 0)
None == 0 - 1
NoStatus == "None"

(***************************************************************************)
(* Bounds of the model.                                                    *)
(***************************************************************************)
NConf == 4          \* configurations 0 .. NConf-1
MaxCost == 1        \* costs 0 .. MaxCost
MaxIters == 2       \* max_iters ranges over 0 .. MaxIters
NumKeys == 3        \* resolution of the floats drawn from rng.rand
RngMod == 5         \* number of generator states
MaxParams == 2      \* hyperparameters of the configuration space (type vector)
MaxFeatures == 2    \* columns of the instance-feature array (type vector)

\* cap on the iteration counter: with max_iters <= 0 the loop need not end
MaxLoop == MaxIters + 1

Configs == 0 .. (NConf - 1)
Costs == 0 .. MaxCost
default_conf == 0

(***************************************************************************)
(* Program constants.                                                      *)
(***************************************************************************)
NUM_RANDOM == 1010      \* choose_next: _get_next_by_random_search(num_points=1010)
NUM_SORTED == 1000      \* choose_next: _get_next_by_random_search(1000, _sorted=True)
NUM_LOCAL == 10         \* choose_next: _get_next_by_local_search(10)

Max(a, b) == IF a >= b THEN a ELSE b
Min(a, b) == IF a <= b THEN a ELSE b
Abs(a) == IF a >= 0 THEN a ELSE 0 - a

(***************************************************************************)
(* StatusType and the first-run check of run_initial_design.               *)
(***************************************************************************)
StatusType == {"SUCCESS", "TIMEOUT", "CRASHED", "ABORT", "MEMOUT"}

\* Python truth value of a StatusType member: enumeration members are true.
Truthy(s) == s \in StatusType

\* Python's `a or b`: a when a is true, otherwise b.
PyOr(a, b) == IF Truthy(a) THEN a ELSE b

\* The list the status is tested against: [StatusType.CRASHED or StatusType.ABORT]
FirstRunFatal == { PyOr("CRASHED", "ABORT") }

(***************************************************************************)
(* The generators.  A generator state s yields the stream Stream(s, 1),    *)
(* Stream(s, 2), ...; drawing n values advances the state by n.            *)
(***************************************************************************)
Stream(s, i) == ((s + i) * (s + i) + 3 * (s + i) + 1) % 17

Advance(s, n) == (s + n) % RngMod

\* config_space.sample_configuration(size = n) from generator state s
sample_configuration(s, n) == [i \in 1 .. n |-> Stream(s, i) % NConf]

\* rng.rand(n): n floats of [0, 1), as multiples of 1 / NumKeys
rand(s, n) == [i \in 1 .. n |-> Stream(s, i) % NumKeys]

(***************************************************************************)
(* RunHistory, the objective and the RunHistory-to-model transform.        *)
(***************************************************************************)
EmptyRunHistory == [data |-> <<>>, cost |-> <<>>]

\* RunHistory.empty()
empty(rh) == Len(rh.data) = 0

\* RunHistory.add: appends the run
add(rh, config, cost, st) ==
    [rh EXCEPT !.data = Append(@, [config |-> config, cost |-> cost, status |-> st])]

\* RunHistory.get_runs_for_config: here the indices of the runs of config
get_runs_for_config(rh, config) ==
    {i \in 1 .. Len(rh.data) : rh.data[i].config = config}

RECURSIVE SumCost(_, _)
SumCost(rh, runs) ==
    IF runs = {} THEN 0
    ELSE LET i == CHOOSE j \in runs : TRUE
         IN rh.data[i].cost + SumCost(rh, runs \ {i})

\* objective average_cost(config, run_history, instance_seed_pairs)
average_cost(rh, config, runs) == SumCost(rh, runs) \div Cardinality(runs)

\* RunHistory.update_cost
update_cost(rh, config, value) ==
    [rh EXCEPT !.cost = [c \in (DOMAIN rh.cost) \cup {config} |->
                            IF c = config THEN value ELSE rh.cost[c]]]

\* RunHistory.get_cost
get_cost(rh, config) == rh.cost[config]

Evaluated(rh) == {rh.data[i].config : i \in 1 .. Len(rh.data)}

\* rh2EPM.transform with success_states = [SUCCESS], no imputation: one row
\* <<configuration, cost>> per successful run, in insertion order.
IsSuccess(r) == r.status = "SUCCESS"
transform(rh) ==
    LET ok == SelectSeq(rh.data, IsSuccess)
    IN [i \in 1 .. Len(ok) |-> <<ok[i].config, ok[i].cost>>]

(***************************************************************************)
(* Surrogate model and Expected Improvement, as integers: the prediction   *)
(* at c is the cost of the nearest training row, its deviation the         *)
(* distance to that row; EI is 0 where the deviation is 0 and otherwise    *)
(* grows with eta - mean and with the deviation.                           *)
(***************************************************************************)
Dist(rows, c) ==
    IF Len(rows) = 0 THEN 1
    ELSE LET d == {Abs(rows[i][1] - c) : i \in 1 .. Len(rows)}
         IN CHOOSE m \in d : \A e \in d : m <= e

Mean(rows, c) ==
    IF Len(rows) = 0 THEN 0
    ELSE LET near == {i \in 1 .. Len(rows) : Abs(rows[i][1] - c) = Dist(rows, c)}
             first == CHOOSE i \in near : \A j \in near : i <= j
         IN rows[first][2]

\* acquisition_func(configuration) after acquisition_func.update(model, eta)
EI(rows, eta, c) ==
    IF Dist(rows, c) = 0 THEN 0
    ELSE Max(eta - Mean(rows, c), 0) + Dist(rows, c)

MaxAcq == MaxCost + NConf

(***************************************************************************)
(* Sorting.  list.sort(reverse=True, key=...) is stable: elements with     *)
(* equal keys keep their order.  np.lexsort sorts by its last key first    *)
(* and is stable as well.                                                  *)
(***************************************************************************)
Reverse(s) == [i \in 1 .. Len(s) |-> s[Len(s) + 1 - i]]

Entries(s, k, v) == SelectSeq(s, LAMBDA x : x[k] = v)

\* stable sort of a sequence of tuples by component k, ascending; keys are 0 .. hi
SortAscending(s, k, hi) ==
    LET f[v \in (0 - 1) .. hi] == IF v < 0 THEN <<>> ELSE f[v - 1] \o Entries(s, k, v)
    IN f[hi]

\* stable sort of a sequence of tuples by component k, descending
SortDescending(s, k, hi) ==
    LET f[v \in (0 - 1) .. hi] == IF v < 0 THEN <<>> ELSE Entries(s, k, v) \o f[v - 1]
    IN f[hi]

\* the merge left as concatenated
SortByAcq_unsorted(s) == s

\* next_configs_by_acq_value.sort(reverse=True, key=lambda x: x[0])
SortByAcq(s) == SortDescending(s, 1, MaxAcq)

\* np.lexsort((random, acq_values)) on tuples <<acq, config, random>>, then [::-1]
LexsortReversed(s) ==
    Reverse(SortAscending(SortAscending(s, 3, NumKeys), 1, MaxAcq))

(***************************************************************************)
(* _get_next_by_random_search                                              *)
(***************************************************************************)
\* _sorted = False: (0, configuration) pairs in sampling order
RandomSearch(cs, n) ==
    LET rand_configs == sample_configuration(cs, n)
    IN [i \in 1 .. n |-> <<0, rand_configs[i]>>]

\* _sorted = True: (acquisition value, configuration), best first, ties broken by
\* the keys drawn from rng
RandomSearchSorted(cs, r, n, rows, eta) ==
    LET rand_configs == sample_configuration(cs, n)
        random == rand(r, n)
        keyed == [i \in 1 .. n |-> <<EI(rows, eta, rand_configs[i]), rand_configs[i], random[i]>>]
        ordered == LexsortReversed(keyed)
    IN [i \in 1 .. n |-> <<ordered[i][1], ordered[i][2]>>]

(***************************************************************************)
(* Local search and _get_next_by_local_search                              *)
(***************************************************************************)
Neighbours(c) == {c - 1, c + 1} \cap Configs

\* LocalSearch.maximize: greedy climb to a local maximum of the acquisition function
RECURSIVE maximize(_, _, _)
maximize(rows, eta, c) ==
    LET better == {n \in Neighbours(c) : EI(rows, eta, n) > EI(rows, eta, c)}
    IN IF better = {} THEN <<EI(rows, eta, c), c>>
       ELSE LET best == CHOOSE n \in better :
                           \A m \in better :
                               \/ EI(rows, eta, n) > EI(rows, eta, m)
                               \/ EI(rows, eta, n) = EI(rows, eta, m) /\ n <= m
            IN maximize(rows, eta, best)

\* random.shuffle(x, random): for i = len-1 down to 1, j = int(random() * (i+1)),
\* swap x[i] and x[j] (0-based); the k-th call of random() is keys[k].
Swap(x, a, b) == [x EXCEPT ![a] = x[b], ![b] = x[a]]

RECURSIVE ShuffleFrom(_, _, _)
ShuffleFrom(x, keys, i) ==
    IF i < 1 THEN x
    ELSE LET k == Len(x) - i
             j == (keys[k] * (i + 1)) \div NumKeys
         IN ShuffleFrom(Swap(x, i + 1, j + 1), keys, i - 1)

shuffle(x, r) == ShuffleFrom(x, rand(r, Len(x)), Len(x) - 1)

\* the start points: the incumbent first when there is one, otherwise samples,
\* each a separate sample_configuration() call
StartPoint(cs, inc, i) ==
    IF i = 1 /\ inc # None THEN inc
    ELSE sample_configuration(Advance(cs, IF inc # None THEN i - 2 ELSE i - 1), 1)[1]

StartDraws(inc, n) == IF inc # None THEN n - 1 ELSE n

LocalSearchResult(cs, r, inc, n, rows, eta) ==
    LET configs_acq == [i \in 1 .. n |-> maximize(rows, eta, StartPoint(cs, inc, i))]
    IN SortByAcq(shuffle(configs_acq, r))

(***************************************************************************)
(* The merge of choose_next, lines 280-287                                 *)
(***************************************************************************)
Strip(s) == [i \in 1 .. Len(s) |-> s[i][2]]

\* zip with its arguments exchanged
Interleave_swapped(a, b) ==
    [i \in 1 .. 2 * Min(Len(a), Len(b)) |->
        IF i % 2 = 1 THEN b[(i + 1) \div 2] ELSE a[i \div 2]]

\* list(itertools.chain(*zip(a, b))): zip stops at the shorter list
Interleave(a, b) ==
    [i \in 1 .. 2 * Min(Len(a), Len(b)) |->
        IF i % 2 = 1 THEN a[(i + 1) \div 2] ELSE b[i \div 2]]

\* eta taken from the default configuration instead of the incumbent
IncumbentValue_default(rh, inc) == IF empty(rh) THEN 0 ELSE get_cost(rh, default_conf)

\* incumbent_value of choose_next, lines 263-266
IncumbentValue(rh, inc) == IF empty(rh) THEN 0 ELSE get_cost(rh, inc)

(***************************************************************************)
(* SMBO.__init__: the type vector, lines 63-85                             *)
(***************************************************************************)
Categorical(n) == [kind |-> "CategoricalHyperparameter", choices |-> n]
Numerical(k) == [kind |-> k, choices |-> 0]

KnownKinds == {"CategoricalHyperparameter", "Constant",
               "UniformFloatHyperparameter", "UniformIntegerHyperparameter"}

\* the hyperparameters a configuration space may declare; the last kind is one
\* the constructor does not know
Hyperparameters ==
    {Categorical(n) : n \in 2 .. 3}
        \cup {Numerical(k) : k \in {"Constant", "UniformFloatHyperparameter",
                                    "UniformIntegerHyperparameter",
                                    "OrdinalHyperparameter"}}

\* a categorical hyperparameter flagged with 1 instead of its number of choices
TypeOf_flag(param) ==
    IF param.kind = "CategoricalHyperparameter" THEN 1 ELSE 0

\* the entry written for one hyperparameter (np.zeros leaves 0 elsewhere)
TypeOf(param) ==
    IF param.kind = "CategoricalHyperparameter" THEN param.choices ELSE 0

\* TypeError("Unknown hyperparameter type") is raised for some parameter
RaisesTypeError(params) ==
    \E i \in 1 .. Len(params) : params[i].kind \notin KnownKinds

\* np.hstack((types, np.zeros(feature_array.shape[1]))) when there is a feature array
get_types(params, features) ==
    LET own == [i \in 1 .. Len(params) |-> TypeOf(params[i])]
    IN IF features # None THEN own \o [j \in 1 .. features |-> 0] ELSE own

\* the configuration space of the optimisation runs: one integer hyperparameter
LineSpace == <<Numerical("UniformIntegerHyperparameter")>>

(***************************************************************************)
(* Stats: the three remaining-budget counters.  A target-algorithm run     *)
(* takes one unit of each; choosing challengers takes one unit of          *)
(* wall-clock time.                                                        *)
(***************************************************************************)
Ample == 4 * MaxLoop + 4
Plenty == [time |-> Ample, ta |-> Ample, runs |-> Ample]
Budgets ==
    {Plenty, [Plenty EXCEPT !.time = 2], [Plenty EXCEPT !.ta = 1],
     [Plenty EXCEPT !.runs = 1]}

Charge(st, n) == [time |-> st.time - n, ta |-> st.ta - n, runs |-> st.runs - n]

\* a loop bounded by `iteration >= max_iters`
MaxItersReached_atleast(it, mx) == it >= mx

\* the test of line 228
MaxItersReached(it, mx) == it = mx

\* the test of lines 238-240
BudgetExhausted(st) == st.time < 0 \/ st.ta < 0 \/ st.runs < 0

\* what the executor may report for a run
ExecutorResults ==
    {<<"SUCCESS", c>> : c \in Costs}
        \cup {<<st, MaxCost>> : st \in StatusType \ {"SUCCESS"}}

NoHist == [initial |-> 0, transform |-> 0, choose |-> 0, intensify |-> 0,
           polls |-> 0, last |-> None, rng_in |-> None, seed |-> None, objects |-> 1]
NoAcq == [model |-> <<>>, eta |-> None, updates |-> 0]
NoCall == [set |-> FALSE, rng |-> None, XY |-> <<>>, runhistory |-> EmptyRunHistory,
           incumbent |-> None, challengers |-> <<>>]

Seeds == {0, RngMod - 1}

(***************************************************************************)
(* The state after SMBO(scenario, rng = seed)                              *)
(***************************************************************************)
Constructed(seed) ==
    /\ pc = "constructed"
    /\ rng = seed
    /\ incumbent = None
    /\ runhistory = EmptyRunHistory
    /\ model = <<>>
    /\ acq = NoAcq
    /\ iteration = None
    /\ status = NoStatus
    /\ XY = <<>>
    /\ next_configs_by_random_search = <<>>
    /\ next_configs_by_random_search_sorted = <<>>
    /\ next_configs_by_local_search = <<>>
    /\ next_configs_by_acq_value = <<>>
    /\ challengers = <<>>
    /\ result = None

\* run(max_iters) is about to be called on an object built with a seed of seeds
Start(seeds, iters, budgets) ==
    /\ \E seed \in seeds : Constructed(seed) /\ hist = [NoHist EXCEPT !.seed = seed]
    /\ max_iters \in iters
    /\ stats \in budgets
    /\ cs_random = 1
    /\ first_call = NoCall
    /\ hyperparameters = LineSpace
    /\ feature_array = None
    /\ types = get_types(LineSpace, None)

Init == Start({0}, 0 .. MaxIters, Budgets)

ChooseNextLocals ==
    <<next_configs_by_random_search, next_configs_by_random_search_sorted,
      next_configs_by_local_search, next_configs_by_acq_value, challengers>>
Scenario == <<hyperparameters, feature_array, types>>

(***************************************************************************)
(* SMBO.run, lines 196-200: start the clock, a fresh run history           *)
(***************************************************************************)
Run ==
    /\ pc = "constructed"
    /\ runhistory' = EmptyRunHistory
    /\ pc' = "run_initial_design"
    /\ UNCHANGED <<max_iters, stats, iteration, rng, cs_random, incumbent, status, XY, model, acq,
                   ChooseNextLocals, result, hist, first_call, Scenario>>

(***************************************************************************)
(* SMBO.run_initial_design, lines 152-180, and iteration = 1 of line 203   *)
(***************************************************************************)
RunInitialDesign ==
    /\ pc = "run_initial_design"
    /\ incumbent' = default_conf
    /\ rng' = Advance(rng, 1)
    /\ \E res \in ExecutorResults :
          /\ status' = res[1]
          /\ IF res[1] \in FirstRunFatal
             THEN /\ pc' = "exit"
                  /\ UNCHANGED <<runhistory, iteration>>
             ELSE /\ LET added == add(runhistory, default_conf, res[2], res[1])
                         defaul_inst_seeds == get_runs_for_config(added, default_conf)
                         default_perf == average_cost(added, default_conf, defaul_inst_seeds)
                     IN runhistory' = update_cost(added, default_conf, default_perf)
                  /\ iteration' = 1
                  /\ pc' = "transform"
    /\ stats' = Charge(stats, 1)
    /\ hist' = [hist EXCEPT !.initial = @ + 1]
    /\ UNCHANGED <<max_iters, cs_random, XY, model, acq, ChooseNextLocals, result,
                   first_call, Scenario>>

\* a transform step that also reads the budget counters
Transform_polls ==
    /\ pc = "transform"
    /\ XY' = transform(runhistory)
    /\ hist' = [hist EXCEPT !.transform = @ + 1, !.polls = @ + 1]
    /\ pc' = IF BudgetExhausted(stats) THEN "return" ELSE "choose_next"
    /\ UNCHANGED <<max_iters, iteration, rng, cs_random, incumbent, runhistory, stats,
                   status, model, acq, ChooseNextLocals, result, first_call, Scenario>>

(***************************************************************************)
(* X, Y = self.rh2EPM.transform(self.runhistory), line 207                 *)
(***************************************************************************)
Transform ==
    /\ pc = "transform"
    /\ XY' = transform(runhistory)
    /\ hist' = [hist EXCEPT !.transform = @ + 1]
    /\ pc' = "choose_next"
    /\ UNCHANGED <<max_iters, iteration, rng, cs_random, incumbent, runhistory, stats,
                   status, model, acq, ChooseNextLocals, result, first_call, Scenario>>

(***************************************************************************)
(* SMBO.choose_next, step by step                                          *)
(***************************************************************************)
\* line 261: self.model.train(X, Y)
ChooseNextTrain ==
    /\ pc = "choose_next"
    /\ model' = XY
    /\ hist' = [hist EXCEPT !.choose = @ + 1, !.rng_in = rng]
    /\ next_configs_by_random_search' = <<>>
    /\ next_configs_by_random_search_sorted' = <<>>
    /\ next_configs_by_local_search' = <<>>
    /\ next_configs_by_acq_value' = <<>>
    /\ challengers' = <<>>
    /\ pc' = "update"
    /\ UNCHANGED <<max_iters, iteration, rng, cs_random, incumbent, runhistory, stats,
                   status, XY, acq, result, first_call, Scenario>>

\* lines 263-268: acquisition_func.update(model, eta = incumbent_value)
ChooseNextUpdate ==
    /\ pc = "update"
    /\ acq' = [model |-> model, eta |-> IncumbentValue(runhistory, incumbent),
               updates |-> acq.updates + 1]
    /\ pc' = "random_search"
    /\ UNCHANGED <<max_iters, iteration, rng, cs_random, incumbent, runhistory, stats,
                   status, XY, model, ChooseNextLocals, result, hist, first_call,
                   Scenario>>

\* lines 271-272
ChooseNextRandomSearch ==
    /\ pc = "random_search"
    /\ next_configs_by_random_search' = Strip(RandomSearch(cs_random, NUM_RANDOM))
    /\ cs_random' = Advance(cs_random, NUM_RANDOM)
    /\ pc' = "random_search_sorted"
    /\ UNCHANGED <<max_iters, iteration, rng, incumbent, runhistory, stats, status, XY,
                   model, acq, next_configs_by_random_search_sorted,
                   next_configs_by_local_search, next_configs_by_acq_value,
                   challengers, result, hist, first_call, Scenario>>

\* lines 275-276
ChooseNextRandomSearchSorted ==
    /\ pc = "random_search_sorted"
    /\ next_configs_by_random_search_sorted' =
           RandomSearchSorted(cs_random, rng, NUM_SORTED, acq.model, acq.eta)
    /\ cs_random' = Advance(cs_random, NUM_SORTED)
    /\ rng' = Advance(rng, NUM_SORTED)
    /\ pc' = "local_search"
    /\ UNCHANGED <<max_iters, iteration, incumbent, runhistory, stats, status, XY,
                   model, acq, next_configs_by_random_search,
                   next_configs_by_local_search, next_configs_by_acq_value,
                   challengers, result, hist, first_call, Scenario>>

\* a local search that adopts its best configuration as the incumbent
ChooseNextLocalSearch_adopts ==
    /\ pc = "local_search"
    /\ LET found == LocalSearchResult(cs_random, rng, incumbent, NUM_LOCAL,
                                      acq.model, acq.eta)
       IN /\ next_configs_by_local_search' = found
          /\ incumbent' = found[1][2]
    /\ cs_random' = Advance(cs_random, StartDraws(incumbent, NUM_LOCAL))
    /\ rng' = Advance(rng, NUM_LOCAL - 1)
    /\ pc' = "merge"
    /\ UNCHANGED <<max_iters, iteration, runhistory, stats, status, XY,
                   model, acq, next_configs_by_random_search,
                   next_configs_by_random_search_sorted, next_configs_by_acq_value,
                   challengers, result, hist, first_call, Scenario>>

\* lines 277-278
ChooseNextLocalSearch ==
    /\ pc = "local_search"
    /\ next_configs_by_local_search' =
           LocalSearchResult(cs_random, rng, incumbent, NUM_LOCAL, acq.model, acq.eta)
    /\ cs_random' = Advance(cs_random, StartDraws(incumbent, NUM_LOCAL))
    /\ rng' = Advance(rng, NUM_LOCAL - 1)
    /\ pc' = "merge"
    /\ UNCHANGED <<max_iters, iteration, incumbent, runhistory, stats, status, XY,
                   model, acq, next_configs_by_random_search,
                   next_configs_by_random_search_sorted, next_configs_by_acq_value,
                   challengers, result, hist, first_call, Scenario>>

\* lines 280-287, and the time spent of line 213
ChooseNextMerge ==
    /\ pc = "merge"
    /\ LET merged == SortByAcq(next_configs_by_random_search_sorted
                                   \o next_configs_by_local_search)
           out == Interleave(Strip(merged), next_configs_by_random_search)
       IN /\ next_configs_by_acq_value' = merged
          /\ challengers' = out
          /\ first_call' =
                 IF ~first_call.set
                 THEN [set |-> TRUE, rng |-> hist.rng_in, XY |-> XY, runhistory |-> runhistory,
                       incumbent |-> incumbent, challengers |-> out]
                 ELSE first_call
    /\ stats' = [stats EXCEPT !.time = @ - 1]
    /\ pc' = "intensify"
    /\ UNCHANGED <<max_iters, iteration, rng, cs_random, incumbent, runhistory, status,
                   XY, model, acq, next_configs_by_random_search,
                   next_configs_by_random_search_sorted, next_configs_by_local_search,
                   result, hist, Scenario>>

(***************************************************************************)
(* Intensifier.intensify: races the first challengers against the          *)
(* incumbent, in order, until its time bound is used up by one target run: *)
(* challengers that have a run are compared on their stored cost, the      *)
(* first without one is run once; a challenger becomes the incumbent when  *)
(* its aggregate cost is strictly lower.                                   *)
(***************************************************************************)
RaceResults == {<<"SUCCESS", c>> : c \in Costs}

\* the position of the first challenger without a run (Len + 1 when all have one)
FirstFresh(rh, chs) ==
    LET fresh == {k \in 1 .. Len(chs) : chs[k] \notin Evaluated(rh)}
    IN IF fresh = {} THEN Len(chs) + 1
       ELSE CHOOSE k \in fresh : \A j \in fresh : k <= j

\* the incumbent after comparing it, in order, with chs[1 .. n], which all have runs
Compared(rh, inc, chs, n) ==
    LET better == {k \in 1 .. n : get_cost(rh, chs[k]) < get_cost(rh, inc)}
    IN IF better = {} THEN inc
       ELSE chs[CHOOSE k \in better :
                   \A j \in better :
                       \/ get_cost(rh, chs[k]) < get_cost(rh, chs[j])
                       \/ get_cost(rh, chs[k]) = get_cost(rh, chs[j]) /\ k <= j]

\* the run history after the run `res` of challenger
Recorded(rh, challenger, res) ==
    LET added == add(rh, challenger, res[2], res[1])
    IN update_cost(added, challenger,
           average_cost(added, challenger, get_runs_for_config(added, challenger)))

\* lines 219-224: self.incumbent = self.inten.intensify(...)
Intensify ==
    /\ pc = "intensify"
    /\ LET first == FirstFresh(runhistory, challengers)
           before == Compared(runhistory, incumbent, challengers, first - 1)
       IN IF first <= Len(challengers)
          THEN \E res \in RaceResults :
                  LET rh == Recorded(runhistory, challengers[first], res)
                      winner == IF get_cost(rh, challengers[first]) < get_cost(rh, before)
                                THEN challengers[first] ELSE before
                  IN /\ runhistory' = rh
                     /\ incumbent' = winner
                     /\ stats' = Charge(stats, 1)
                     /\ hist' = [hist EXCEPT !.intensify = @ + 1, !.last = winner]
          ELSE /\ incumbent' = before
               /\ hist' = [hist EXCEPT !.intensify = @ + 1, !.last = before]
               /\ UNCHANGED <<runhistory, stats>>
    /\ pc' = "check"
    /\ UNCHANGED <<max_iters, iteration, rng, cs_random, status, XY, model, acq,
                   ChooseNextLocals, result, first_call, Scenario>>

(***************************************************************************)
(* lines 228-241: the end of one pass of the while loop                    *)
(***************************************************************************)
LoopCheck ==
    /\ pc = "check"
    /\ IF MaxItersReached(iteration, max_iters)
       THEN /\ pc' = "return"
            /\ UNCHANGED <<iteration, hist>>
       ELSE /\ iteration' = iteration + 1
            /\ hist' = [hist EXCEPT !.polls = @ + 1]
            /\ IF BudgetExhausted(stats)
               THEN pc' = "return"
               ELSE /\ iteration < MaxLoop
                    /\ pc' = "transform"
    /\ UNCHANGED <<max_iters, rng, cs_random, incumbent, runhistory, stats, status, XY,
                   model, acq, ChooseNextLocals, result, first_call, Scenario>>

\* line 243: return self.incumbent
Return ==
    /\ pc = "return"
    /\ result' = incumbent
    /\ pc' = "done"
    /\ UNCHANGED <<max_iters, iteration, rng, cs_random, incumbent, runhistory, stats,
                   status, XY, model, acq, ChooseNextLocals, hist, first_call, Scenario>>

Next ==
    \/ Run
    \/ RunInitialDesign
    \/ Transform
    \/ ChooseNextTrain
    \/ ChooseNextUpdate
    \/ ChooseNextRandomSearch
    \/ ChooseNextRandomSearchSorted
    \/ ChooseNextLocalSearch
    \/ ChooseNextMerge
    \/ Intensify
    \/ LoopCheck
    \/ Return

Spec == Init /\ [][Next]_vars

(***************************************************************************)
(* The constructor on its own: any configuration space, any feature array. *)
(***************************************************************************)
RECURSIVE SeqsUpTo(_, _)
SeqsUpTo(S, n) ==
    IF n = 0 THEN {<<>>}
    ELSE LET shorter == SeqsUpTo(S, n - 1)
         IN shorter \cup {Append(q, x) : q \in shorter, x \in S}

InitTypes ==
    /\ pc = "new"
    /\ hyperparameters \in SeqsUpTo(Hyperparameters, MaxParams)
    /\ feature_array \in {None} \cup (0 .. MaxFeatures)
    /\ types = <<>>
    /\ rng = 0
    /\ incumbent = None
    /\ runhistory = EmptyRunHistory
    /\ model = <<>>
    /\ acq = NoAcq
    /\ iteration = None
    /\ status = NoStatus
    /\ XY = <<>>
    /\ next_configs_by_random_search = <<>>
    /\ next_configs_by_random_search_sorted = <<>>
    /\ next_configs_by_local_search = <<>>
    /\ next_configs_by_acq_value = <<>>
    /\ challengers = <<>>
    /\ result = None
    /\ max_iters = 1
    /\ stats = Plenty
    /\ cs_random = 1
    /\ hist = NoHist
    /\ first_call = NoCall

NotScenario ==
    <<max_iters, iteration, rng, cs_random, incumbent, runhistory, stats, status, XY,
      model, acq, ChooseNextLocals, result, hist, first_call>>

\* SMBO.__init__, lines 63-85, with only known hyperparameter kinds
Construct ==
    /\ pc = "new"
    /\ ~RaisesTypeError(hyperparameters)
    /\ types' = get_types(hyperparameters, feature_array)
    /\ pc' = "constructed"
    /\ UNCHANGED <<hyperparameters, feature_array, NotScenario>>

\* SMBO.__init__, line 79: raise TypeError
ConstructRaises ==
    /\ pc = "new"
    /\ RaisesTypeError(hyperparameters)
    /\ pc' = "TypeError"
    /\ UNCHANGED <<Scenario, NotScenario>>

NextTypes ==
    \/ Construct
    \/ ConstructRaises

SpecTypes == InitTypes /\ [][NextTypes]_vars

(***************************************************************************)
(* A second SMBO object on the same scenario, built with the same seed     *)
(* once the first has returned from run(1).                                *)
(***************************************************************************)
InitSeed == Start(Seeds, {1}, {Plenty})

\* SMBO(scenario, rng = seed), lines 50-61 and 96: the scenario and its
\* configuration space are the caller's and are not touched
Reconstruct ==
    /\ pc = "done"
    /\ hist.objects = 1
    /\ pc' = "constructed"
    /\ rng' = hist.seed
    /\ incumbent' = None
    /\ runhistory' = EmptyRunHistory
    /\ model' = <<>>
    /\ acq' = NoAcq
    /\ iteration' = None
    /\ status' = NoStatus
    /\ XY' = <<>>
    /\ next_configs_by_random_search' = <<>>
    /\ next_configs_by_random_search_sorted' = <<>>
    /\ next_configs_by_local_search' = <<>>
    /\ next_configs_by_acq_value' = <<>>
    /\ challengers' = <<>>
    /\ result' = None
    /\ hist' = [NoHist EXCEPT !.seed = hist.seed, !.objects = 2]
    /\ UNCHANGED <<max_iters, cs_random, stats, first_call, Scenario>>

NextSeed ==
    \/ Next
    \/ Reconstruct

SpecSeed == InitSeed /\ [][NextSeed]_vars

(***************************************************************************)
(* Properties                                                              *)
(***************************************************************************)
InChooseNext ==
    pc \in {"update", "random_search", "random_search_sorted", "local_search", "merge"}
AfterUpdate ==
    pc \in {"random_search", "random_search_sorted", "local_search", "merge", "intensify"}
Returned == pc \in {"return", "done"}

C2_CrashedOrAbortIsFatal ==
    /\ status \in {"CRASHED", "ABORT"} =>
          pc = "exit" /\ empty(runhistory) /\ hist.transform = 0
    /\ status \in {"SUCCESS", "TIMEOUT", "MEMOUT"} =>
          pc # "exit" /\ ~empty(runhistory)

\* C3: the result of choose_next alternates the acquisition-ranked list with the
\* unscored random list, has 2020 elements, and the ranked list holds every sorted
\* random-search and every local-search candidate exactly once.
Count(s, x) == Cardinality({i \in 1 .. Len(s) : s[i] = x})
Scored == (0 .. MaxAcq) \X Configs

C3_StrictAlternation ==
    pc = "intensify" =>
        /\ Len(challengers) = 2020
        /\ Len(next_configs_by_random_search_sorted) = 1000
        /\ Len(next_configs_by_local_search) = 10
        /\ Len(next_configs_by_random_search) = 1010
        /\ \A k \in 1 .. Len(next_configs_by_acq_value) :
              challengers[2 * k - 1] = next_configs_by_acq_value[k][2]
        /\ \A k \in 1 .. Len(next_configs_by_random_search) :
              challengers[2 * k] = next_configs_by_random_search[k]
        /\ \A x \in Scored :
              Count(next_configs_by_acq_value, x) =
                  Count(next_configs_by_random_search_sorted, x)
                      + Count(next_configs_by_local_search, x)

C3_Interleaved ==
    /\ pc = "intensify"
    /\ hist.choose = 2
    /\ challengers[1] # challengers[2]
    /\ \E k \in 1 .. 10 : next_configs_by_local_search[k] = next_configs_by_acq_value[1]

\* C4: before the first choose_next the incumbent is the default configuration;
\* it is not None wherever choose_next or intensify runs; after the initial design
\* it changes only by being assigned what intensify returned.
C4_IncumbentOnlyFromIntensify ==
    /\ [](/\ (InChooseNext \/ pc \in {"choose_next", "intensify"}) => incumbent # None
          /\ (hist.choose = 0 /\ pc \in {"transform", "choose_next"}) =>
                 incumbent = default_conf)
    /\ [][incumbent' # incumbent =>
             \/ pc = "run_initial_design" /\ incumbent' = default_conf
             \/ pc = "intensify" /\ incumbent' = hist'.last]_vars

C4_IncumbentReplaced ==
    /\ pc = "local_search"
    /\ incumbent # default_conf
    /\ incumbent = hist.last

\* C5: the type vector has one entry per hyperparameter, in declaration order, plus
\* one per instance-feature column (none without a feature array); the entry of a
\* categorical hyperparameter is its number of choices, every other entry is 0.
C5_TypeVector ==
    pc = "constructed" =>
        /\ Len(types) = Len(hyperparameters)
                            + (IF feature_array = None THEN 0 ELSE feature_array)
        /\ \A i \in 1 .. Len(hyperparameters) :
              /\ hyperparameters[i].kind = "CategoricalHyperparameter" =>
                     types[i] = hyperparameters[i].choices
              /\ hyperparameters[i].kind \in {"UniformFloatHyperparameter",
                                              "UniformIntegerHyperparameter",
                                              "Constant"} => types[i] = 0
        /\ \A j \in (Len(hyperparameters) + 1) .. Len(types) : types[j] = 0

C5_MixedSpace ==
    /\ pc = "constructed"
    /\ Len(hyperparameters) = 2
    /\ hyperparameters[1].kind = "Constant"
    /\ hyperparameters[2].kind = "CategoricalHyperparameter"
    /\ feature_array = 2
    /\ types = <<0, hyperparameters[2].choices, 0, 0>>

\* C6: two choose_next calls with the same run history, the same (X, Y) and the
\* same seeded generator state return the same challengers.
C6_SameSeedSameChallengers ==
    (/\ pc = "intensify"
     /\ first_call.set
     /\ first_call.rng = hist.rng_in
     /\ first_call.XY = XY
     /\ first_call.runhistory = runhistory
     /\ first_call.incumbent = incumbent) => challengers = first_call.challengers

\* C7: in every choose_next call the acquisition function is updated once, after
\* the model was trained on (X, Y) and before anything is scored, with eta the
\* stored cost of the incumbent (0 for an empty run history); every candidate is
\* scored with that model and eta.
ExpectedEta == IF Len(runhistory.data) = 0 THEN 0 ELSE runhistory.cost[incumbent]

C7_EtaIsIncumbentCost ==
    /\ pc = "update" =>
          /\ next_configs_by_random_search_sorted = <<>>
          /\ next_configs_by_local_search = <<>>
    /\ pc = "update" => model = XY /\ acq.updates = hist.choose - 1
    /\ AfterUpdate =>
          /\ acq.updates = hist.choose
          /\ acq.model = XY
          /\ model = XY
          /\ acq.eta = ExpectedEta
          /\ \A i \in 1 .. Len(next_configs_by_random_search_sorted) :
                next_configs_by_random_search_sorted[i][1] =
                    EI(XY, ExpectedEta, next_configs_by_random_search_sorted[i][2])
          /\ \A i \in 1 .. Len(next_configs_by_local_search) :
                next_configs_by_local_search[i][1] =
                    EI(XY, ExpectedEta, next_configs_by_local_search[i][2])

C7_NewIncumbentCost ==
    /\ pc = "merge"
    /\ incumbent # default_conf
    /\ acq.eta = runhistory.cost[incumbent]
    /\ acq.eta < runhistory.cost[default_conf]

\* C8: one initial-design run, recorded with its cost in a fresh run history, before
\* the first iteration; transform, choose_next, intensify in that order in every
\* iteration; the budget counters are read only after intensify has returned.
C8_OrderOfCalls ==
    /\ [](/\ hist.initial <= 1
          /\ pc \notin {"constructed", "run_initial_design"} => hist.initial = 1
          /\ (pc = "transform" /\ hist.transform = 0) =>
                 /\ Len(runhistory.data) = 1
                 /\ runhistory.data[1].config = default_conf
                 /\ runhistory.cost = (default_conf :> runhistory.data[1].cost)
          /\ pc = "transform" =>
                 hist.transform = hist.intensify /\ hist.choose = hist.intensify
          /\ pc = "choose_next" =>
                 hist.transform = hist.intensify + 1 /\ hist.choose = hist.intensify
          /\ (InChooseNext \/ pc = "intensify") =>
                 hist.transform = hist.intensify + 1 /\ hist.choose = hist.intensify + 1
          /\ (pc = "check" \/ Returned) =>
                 hist.transform = hist.intensify /\ hist.choose = hist.intensify
          /\ hist.polls <= hist.intensify)
    /\ [][hist'.polls # hist.polls =>
             /\ pc = "check"
             /\ hist'.polls = hist.polls + 1
             /\ hist.transform = hist.intensify
             /\ hist.choose = hist.intensify]_vars

C8_SecondIteration ==
    /\ pc = "intensify"
    /\ hist.transform = 2
    /\ hist.polls = 1
    /\ hist.initial = 1

\* C9: the candidates at the even positions (counting from 0) of the result of
\* choose_next are in non-increasing order of acquisition value, whichever search
\* produced them.
C9_RankedByAcquisition ==
    pc = "intensify" =>
        /\ \A k \in 1 .. (Len(next_configs_by_acq_value) - 1) :
              next_configs_by_acq_value[k][1] >= next_configs_by_acq_value[k + 1][1]
        /\ \A k \in 1 .. ((Len(challengers) \div 2) - 1) :
              EI(acq.model, acq.eta, challengers[2 * k - 1]) >=
                  EI(acq.model, acq.eta, challengers[2 * k + 1])

C9_LocalBeatsRandom ==
    /\ pc = "intensify"
    /\ next_configs_by_local_search[1][1] > next_configs_by_random_search_sorted[1000][1]
    /\ next_configs_by_random_search_sorted[1][1] > next_configs_by_local_search[10][1]

\* C10: run performs at least one and at most max(1, max_iters) iterations.
C10_AtMostMaxIters ==
    /\ hist.intensify <= Max(1, max_iters)
    /\ pc = "done" => hist.intensify >= 1

====
